---- MODULE Spec2Model ----
(***************************************************************************)
(* Spotify-Genre-Tracker: the migration runner of DatabaseManager          *)
(* (src/database/__init__.py) and the listening tracker of Program         *)
(* (src/cli/__init__.py).                                                  *)
(*                                                                         *)
(* Times are integers in milliseconds.  A migration directory is the list  *)
(* of sequence numbers of its NNN_up.sql files in the order os.scandir     *)
(* yields them, and the set of sequence numbers of its NNN_down.sql files. *)
(***************************************************************************)
EXTENDS Integers, Sequences, FiniteSets, TLC

\* ---------------------------------------------------------------- bounds
MaxSeq == 3
MaxListen == 2

\* ------------------------------------------------------------- constants
NoId == -1
MinSeq == 0
UpNums == MinSeq..MaxSeq
DownNums == 1..MaxSeq
Versions == 0..MaxSeq
\* a call applies at most MaxSeq scripts; MaxSeq + 1 stands for "no script
\* of the call holds an INSERT/UPDATE/DELETE/REPLACE"
DmlPositions == 1..(MaxSeq + 1)

\* ------------------------------------------------------------- variables
VARIABLES
    dbVersion,      \* PRAGMA user_version as stored in the database file
    upFiles,        \* sequence numbers of the *_up.sql files, in listing order
    downFiles,      \* sequence numbers of the *_down.sql files
    last,           \* the last migration call: what it was given and what it did
    prev,           \* the migration call before that one
    pc,             \* position of the listening worker
    finish,         \* Program.finish
    recorded_song,  \* recorded_song of the update loop
    recorded_time,  \* recorded_time of the update loop
    Genre,          \* the Genre table: row i has id i
    tick,           \* what the last iteration of the update loop saw and did
    app,            \* position of Program.run
    repo            \* the last direct call of the genre repository

migVars == <<dbVersion, upFiles, downFiles, last, prev>>
trackVars == <<pc, finish, recorded_song, recorded_time, Genre, tick, app, repo>>
vars == <<dbVersion, upFiles, downFiles, last, prev,
          pc, finish, recorded_song, recorded_time, Genre, tick, app, repo>>

\* --------------------------------------------------------------- helpers
Range(s) == {s[i] : i \in 1..Len(s)}

NoDup(s) == \A i, j \in 1..Len(s) : i # j => s[i] # s[j]

RECURSIVE SeqsUpTo(_, _)
SeqsUpTo(S, n) ==
    IF n = 0 THEN {<<>>}
    ELSE LET shorter == SeqsUpTo(S, n - 1)
         IN  shorter \cup {Append(s, x) : s \in shorter, x \in S}

\* every listing os.scandir can yield for a set of distinct file names
Listings == {s \in SeqsUpTo(UpNums, Cardinality(UpNums)) : NoDup(s)}

Ascending(s) == \A i \in 1..(Len(s) - 1) : s[i] < s[i + 1]

InsertAt(s, i, x) == SubSeq(s, 1, i - 1) \o <<x>> \o SubSeq(s, i, Len(s))

RemoveAt(s, i) == SubSeq(s, 1, i - 1) \o SubSeq(s, i + 1, Len(s))

\* down_files.sort(reverse=True, key=name): descending sequence numbers
RECURSIVE SortDesc(_)
SortDesc(S) ==
    IF S = {} THEN <<>>
    ELSE LET m == CHOOSE x \in S : \A y \in S : y <= x
         IN  <<m>> \o SortDesc(S \ {m})

\* ------------------------------------------------------ migration engine
\* A connection of the sqlite3 module opens a transaction implicitly before
\* the first INSERT/UPDATE/DELETE/REPLACE; before that every statement,
\* PRAGMA user_version included, is committed at once.  firstDml is the
\* position, among the scripts a call applies, of the first script holding
\* such a statement.  DatabaseManager.__exit__ closes the connection without
\* a commit, which undoes what the open transaction wrote.
TxOpenAfter(nApplied, firstDml) == nApplied >= firstDml

Outcome(r, e, v, a) == [result |-> r, errId |-> e, version |-> v, applied |-> a]

\* the for loop of migration_upgrade from listing position i on:
\* mv is migration_version, stored the version a close without commit keeps
RECURSIVE UpgradeLoop(_, _, _, _, _, _)
UpgradeLoop(files, i, mv, stored, applied, firstDml) ==
    IF i > Len(files)
    THEN Outcome("ok", NoId, mv, applied)
    ELSE LET file_index == files[i]
         IN  IF file_index <= mv
             THEN UpgradeLoop(files, i + 1, mv, stored, applied, firstDml)
             ELSE IF file_index = (i - 1) + 1
                  THEN LET now == Append(applied, file_index)
                           keep == IF TxOpenAfter(Len(now), firstDml)
                                   THEN stored ELSE mv + 1
                       IN  UpgradeLoop(files, i + 1, mv + 1, keep, now, firstDml)
                  ELSE Outcome("IndexError", (i - 1) + 1, stored, applied)

\* variant: the stored version is not read, every call starts from 0
migration_upgrade_from_zero(files, version, firstDml) ==
    IF 0 >= Len(files)
    THEN Outcome("noop", NoId, version, <<>>)
    ELSE UpgradeLoop(files, 1, 0, version, <<>>, firstDml)

migration_upgrade(files, version, firstDml) ==
    IF version >= Len(files)
    THEN Outcome("noop", NoId, version, <<>>)
    ELSE UpgradeLoop(files, 1, version, version, <<>>, firstDml)

\* the for loop of migration_rollback over the sorted down files
RECURSIVE RollbackLoop(_, _, _, _, _, _, _)
RollbackLoop(files, i, mv, target, stored, applied, firstDml) ==
    IF i > Len(files) \/ mv = target
    THEN Outcome("ok", NoId, mv, applied)
    ELSE LET file_index == files[i]
         IN  IF file_index = mv
             THEN LET now == Append(applied, file_index)
                      keep == IF TxOpenAfter(Len(now), firstDml)
                              THEN stored ELSE mv - 1
                  IN  RollbackLoop(files, i + 1, mv - 1, target, keep, now, firstDml)
             ELSE Outcome("IndexError", mv, stored, applied)

\* variant: the check against a future version is missing
migration_rollback_no_future_check(downs, version, rollback_version, firstDml) ==
    IF version = rollback_version
    THEN Outcome("already", NoId, version, <<>>)
    ELSE IF version - rollback_version # Cardinality(downs)
    THEN Outcome("notenough", NoId, version, <<>>)
    ELSE RollbackLoop(SortDesc(downs), 1, version, rollback_version,
                      version, <<>>, firstDml)

migration_rollback(downs, version, rollback_version, firstDml) ==
    IF version = rollback_version
    THEN Outcome("already", NoId, version, <<>>)
    ELSE IF version < rollback_version
    THEN Outcome("future", NoId, version, <<>>)
    ELSE IF version - rollback_version # Cardinality(downs)
    THEN Outcome("notenough", NoId, version, <<>>)
    ELSE RollbackLoop(SortDesc(downs), 1, version, rollback_version,
                      version, <<>>, firstDml)

\* ----------------------------------------------------- migration actions
NoCall == [op |-> "none", pre |-> 0, target |-> 0, result |-> "none",
           errId |-> NoId, applied |-> <<>>]

Call(op, target, out) ==
    [op |-> op, pre |-> dbVersion, target |-> target, result |-> out.result,
     errId |-> out.errId, applied |-> out.applied]

NoPrev == [op |-> "none", pre |-> 0, result |-> "none"]

Before(call) == [op |-> call.op, pre |-> call.pre, result |-> call.result]

\* with DatabaseManager() as db: db.migration_upgrade()
Upgrade ==
    \E out \in {migration_upgrade(upFiles, dbVersion, d) : d \in DmlPositions} :
        /\ dbVersion' = out.version
        /\ last' = Call("upgrade", 0, out)
        /\ prev' = Before(last)
        /\ UNCHANGED <<upFiles, downFiles>>
        /\ UNCHANGED trackVars

\* with DatabaseManager() as db: db.migration_rollback(rollback_version)
Rollback ==
    \E rollback_version \in Versions :
        \E out \in {migration_rollback(downFiles, dbVersion, rollback_version, d) :
                        d \in DmlPositions} :
            /\ dbVersion' = out.version
            /\ last' = Call("rollback", rollback_version, out)
            /\ prev' = Before(last)
            /\ UNCHANGED <<upFiles, downFiles>>
            /\ UNCHANGED trackVars

\* the migration directory changes between two calls: a file appears
\* anywhere in the listing, or disappears
AddUpFile ==
    \E n \in UpNums \ Range(upFiles), i \in 1..(Len(upFiles) + 1) :
        /\ upFiles' = InsertAt(upFiles, i, n)
        /\ last' = NoCall /\ prev' = NoPrev
        /\ UNCHANGED <<dbVersion, downFiles>>
        /\ UNCHANGED trackVars

RemoveUpFile ==
    \E i \in 1..Len(upFiles) :
        /\ upFiles' = RemoveAt(upFiles, i)
        /\ last' = NoCall /\ prev' = NoPrev
        /\ UNCHANGED <<dbVersion, downFiles>>
        /\ UNCHANGED trackVars

AddDownFile ==
    \E n \in DownNums \ downFiles :
        /\ downFiles' = downFiles \cup {n}
        /\ last' = NoCall /\ prev' = NoPrev
        /\ UNCHANGED <<dbVersion, upFiles>>
        /\ UNCHANGED trackVars

RemoveDownFile ==
    \E n \in downFiles :
        /\ downFiles' = downFiles \ {n}
        /\ last' = NoCall /\ prev' = NoPrev
        /\ UNCHANGED <<dbVersion, upFiles>>
        /\ UNCHANGED trackVars

\* ------------------------------------------------------ genre repository
GenreNames == {"rock", "pop"}

Row(name) == [name |-> name, listened_time |-> 0]

\* variant: the UPDATE has no WHERE clause
increment_genre_listen_time_all_rows(table, genre_id, increment_by) ==
    [i \in 1..Len(table) |->
        [table[i] EXCEPT !.listened_time = @ + increment_by]]

\* variant: the update subtracts
increment_genre_listen_time_minus(table, genre_id, increment_by) ==
    [i \in 1..Len(table) |->
        IF i = genre_id
        THEN [table[i] EXCEPT !.listened_time = @ - increment_by]
        ELSE table[i]]

\* UPDATE Genre SET listened_time = listened_time + by WHERE id = genre_id
increment_genre_listen_time(table, genre_id, increment_by) ==
    [i \in 1..Len(table) |->
        IF i = genre_id
        THEN [table[i] EXCEPT !.listened_time = @ + increment_by]
        ELSE table[i]]

\* an UPDATE that matches no row is not an error: the call raises nothing
\* whether or not a row has that id
increment_error(table, genre_id) == "none"

\* the Genre table is created by the migration scripts; its name column
\* is unique
NameTaken(table, name) == \E i \in 1..Len(table) : table[i].name = name

\* variant: INSERT OR REPLACE, a row of that name is replaced by a new one
create_new_genre_or_replace(table, name) ==
    IF NameTaken(table, name)
    THEN [table |-> [i \in 1..Len(table) |->
                        IF table[i].name = name THEN Row(name) ELSE table[i]],
          error |-> "none"]
    ELSE [table |-> Append(table, Row(name)), error |-> "none"]

\* INSERT INTO Genre (name): sqlite3.IntegrityError is raised again with
\* the message "Genre with name ... already exists."
create_new_genre(table, name) ==
    IF NameTaken(table, name)
    THEN [table |-> table, error |-> "IntegrityError"]
    ELSE [table |-> Append(table, Row(name)), error |-> "none"]

\* DatabaseManager defines get_genre_by_id and get_genres_by_name, and no
\* get_genre_by_name: the call the update loop makes raises AttributeError
Raised(e) == [error |-> e, id |-> 0]
Fetched(id) == [error |-> "none", id |-> id]

\* variant: the lookup exists and fetches the row with exactly that name
get_genre_by_name_found(table, name) ==
    IF \E i \in 1..Len(table) : table[i].name = name
    THEN Fetched(CHOOSE i \in 1..Len(table) : table[i].name = name)
    ELSE Fetched(0)

get_genre_by_name(table, name) == Raised("AttributeError")

\* ------------------------------------------------------- playback sampler
CheckInterval == 1500
DaySeconds == 86400

Tracks == {"s1", "s2"}

\* the artists of a track and the genres the artist endpoint gives for each
TrackArtists(song_id) ==
    IF song_id = "s1" THEN <<"a1", "a2">> ELSE <<"a2", "a3">>

ArtistGenres(artist_id) ==
    IF artist_id = "a1" THEN <<"rock">> ELSE <<"pop">>

\* genres = []; for id in artists_ids: genres += artist.get("genres")
RECURSIVE ConcatGenres(_, _)
ConcatGenres(artists_ids, i) ==
    IF i > Len(artists_ids)
    THEN <<>>
    ELSE ArtistGenres(artists_ids[i]) \o ConcatGenres(artists_ids, i + 1)

\* the genres of the artists of a track, concatenated artist by artist
TrackGenres(song_id) == ConcatGenres(TrackArtists(song_id), 1)

ProgressValues == {0, 500, 1500, 3000, 16500}
RequestTimes == {100, 14000}

Samples == [song_id : Tracks, progress_ms : ProgressValues]

\* None, for a sample, a song id and a time
NoSample == [song_id |-> "None", progress_ms |-> 0]
NoSong == "None"
NoTime == -1

\* timedelta.seconds: the seconds field of the normalised (days, seconds,
\* microseconds) triple, which lies in 0..86399 also for a negative timedelta
TimedeltaSeconds(ms) == (ms \div 1000) % DaySeconds

\* `not x` for a timedelta or None: None and timedelta(0) are both false
Falsy(t) == t = NoTime \/ t = 0

\* ------------------------------------------------------ listening tracker
ZeroCredit == [g \in GenreNames |-> 0]

Acc(table, credited, created, error) ==
    [table |-> table, credited |-> credited, created |-> created, error |-> error]

\* Program._create_new_genre: its own `with DatabaseManager()` swallows the
\* IntegrityError, and the notification is printed after a successful insert
CreateStep(acc, name) ==
    LET r == create_new_genre(acc.table, name)
    IN  IF r.error = "none"
        THEN Acc(r.table, acc.credited, Append(acc.created, name), acc.error)
        ELSE acc

\* for genre in current_song.genres: ... inside `with DatabaseManager() as db`;
\* an exception leaves the loop and the with statement swallows it
RECURSIVE CreditLoop(_, _, _, _)
CreditLoop(acc, genres, i, secs) ==
    IF i > Len(genres)
    THEN acc
    ELSE LET genre == genres[i]
             genre_data == get_genre_by_name(acc.table, genre)
         IN  IF genre_data.error # "none"
             THEN Acc(acc.table, acc.credited, acc.created, genre_data.error)
             ELSE LET absent == genre_data.id = 0
                      made == IF absent THEN CreateStep(acc, genre) ELSE acc
                      again == IF absent
                               THEN get_genre_by_name(made.table, genre)
                               ELSE genre_data
                  IN  IF again.error # "none"
                      THEN Acc(made.table, made.credited, made.created, again.error)
                      ELSE IF again.id = 0
                      THEN Acc(made.table, made.credited, made.created, "TypeError")
                      ELSE CreditLoop(
                               Acc(increment_genre_listen_time(made.table, again.id, secs),
                                   [made.credited EXCEPT ![genre] = @ + secs],
                                   made.created, made.error),
                               genres, i + 1, secs)

NoCredit(table) == Acc(table, ZeroCredit, <<>>, "none")

\* variant: __exit__ returns a false value and the exception goes on
exit_propagates(error) == error = "none"

\* DatabaseManager.__exit__ prints the exception raised inside the with
\* block and returns True: the exception is suppressed
exit_suppresses(error) == TRUE

\* variant: an iteration that finds nothing playing forgets the recorded
\* song and time
TickOutcome_pause_resets(table, rsong, rtime, current_song, request_time) ==
    LET song0 == IF rsong = NoSong THEN current_song.song_id ELSE rsong
    IN  IF current_song = NoSample
        THEN [song |-> NoSong, time |-> NoTime, branch |-> "nothing",
              accepted |-> FALSE, delta |-> 0, acc |-> NoCredit(table)]
        ELSE LET time0 == IF Falsy(rtime) THEN current_song.progress_ms ELSE rtime
                 current_time == current_song.progress_ms
                 genres == TrackGenres(current_song.song_id)
             IN  IF current_song.song_id = song0
                 THEN LET dif_time == current_time - time0
                          ok == dif_time < CheckInterval + request_time
                      IN  [song |-> song0, time |-> current_time, branch |-> "same",
                           accepted |-> ok, delta |-> dif_time,
                           acc |-> IF ok
                                   THEN CreditLoop(NoCredit(table), genres, 1,
                                                   TimedeltaSeconds(dif_time))
                                   ELSE NoCredit(table)]
                 ELSE LET ok == current_time < CheckInterval + request_time
                      IN  [song |-> song0, time |-> current_time, branch |-> "changed",
                           accepted |-> ok, delta |-> current_time,
                           acc |-> IF ok
                                   THEN CreditLoop(NoCredit(table), genres, 1,
                                                   TimedeltaSeconds(current_time))
                                   ELSE NoCredit(table)]

\* variant: without a recorded time the delta is counted from the start of
\* the track
TickOutcome_first_from_zero(table, rsong, rtime, current_song, request_time) ==
    LET song0 == IF rsong = NoSong THEN current_song.song_id ELSE rsong
    IN  IF current_song = NoSample
        THEN [song |-> song0, time |-> rtime, branch |-> "nothing",
              accepted |-> FALSE, delta |-> 0, acc |-> NoCredit(table)]
        ELSE LET time0 == IF Falsy(rtime) THEN 0 ELSE rtime
                 current_time == current_song.progress_ms
                 genres == TrackGenres(current_song.song_id)
             IN  IF current_song.song_id = song0
                 THEN LET dif_time == current_time - time0
                          ok == dif_time < CheckInterval + request_time
                      IN  [song |-> song0, time |-> current_time, branch |-> "same",
                           accepted |-> ok, delta |-> dif_time,
                           acc |-> IF ok
                                   THEN CreditLoop(NoCredit(table), genres, 1,
                                                   TimedeltaSeconds(dif_time))
                                   ELSE NoCredit(table)]
                 ELSE LET ok == current_time < CheckInterval + request_time
                      IN  [song |-> song0, time |-> current_time, branch |-> "changed",
                           accepted |-> ok, delta |-> current_time,
                           acc |-> IF ok
                                   THEN CreditLoop(NoCredit(table), genres, 1,
                                                   TimedeltaSeconds(current_time))
                                   ELSE NoCredit(table)]

\* one iteration of the while loop of _currently_listening_update_loop
\* with the sample and the request time it measured
TickOutcome(table, rsong, rtime, current_song, request_time) ==
    LET song0 == IF rsong = NoSong THEN current_song.song_id ELSE rsong
    IN  IF current_song = NoSample
        THEN [song |-> song0, time |-> rtime, branch |-> "nothing",
              accepted |-> FALSE, delta |-> 0, acc |-> NoCredit(table)]
        ELSE LET time0 == IF Falsy(rtime) THEN current_song.progress_ms ELSE rtime
                 current_time == current_song.progress_ms
                 genres == TrackGenres(current_song.song_id)
             IN  IF current_song.song_id = song0
                 THEN LET dif_time == current_time - time0
                          ok == dif_time < CheckInterval + request_time
                      IN  [song |-> song0, time |-> current_time, branch |-> "same",
                           accepted |-> ok, delta |-> dif_time,
                           acc |-> IF ok
                                   THEN CreditLoop(NoCredit(table), genres, 1,
                                                   TimedeltaSeconds(dif_time))
                                   ELSE NoCredit(table)]
                 ELSE LET ok == current_time < CheckInterval + request_time
                      IN  [song |-> song0, time |-> current_time, branch |-> "changed",
                           accepted |-> ok, delta |-> current_time,
                           acc |-> IF ok
                                   THEN CreditLoop(NoCredit(table), genres, 1,
                                                   TimedeltaSeconds(current_time))
                                   ELSE NoCredit(table)]

NoTick == [sample |-> NoSample, request_time |-> 0, was_song |-> NoSong,
           was_time |-> NoTime, branch |-> "none", accepted |-> FALSE,
           delta |-> 0, credited |-> ZeroCredit, created |-> <<>>,
           error |-> "none"]

Fits(table) == \A i \in 1..Len(table) : table[i].listened_time <= MaxListen

\* lines 259-261: the sample taken before the loop
StartLoop ==
    /\ pc = "start"
    /\ \E s \in Samples \cup {NoSample} :
        /\ recorded_song' = s.song_id
        /\ recorded_time' = (IF s = NoSample THEN NoTime ELSE s.progress_ms)
    /\ pc' = "loop"
    /\ UNCHANGED <<finish, Genre, tick, app, repo>>
    /\ UNCHANGED migVars

\* lines 263-311: one iteration
Tick ==
    /\ pc = "loop"
    /\ ~finish
    /\ \E current_song \in Samples \cup {NoSample}, request_time \in RequestTimes :
        LET out == TickOutcome(Genre, recorded_song, recorded_time,
                               current_song, request_time)
        IN  /\ recorded_song' = out.song
            /\ recorded_time' = out.time
            /\ Genre' = out.acc.table
            /\ tick' = [sample |-> current_song, request_time |-> request_time,
                        was_song |-> recorded_song, was_time |-> recorded_time,
                        branch |-> out.branch, accepted |-> out.accepted,
                        delta |-> out.delta, credited |-> out.acc.credited,
                        created |-> out.acc.created, error |-> out.acc.error]
            /\ pc' = (IF exit_suppresses(out.acc.error) THEN "loop" ELSE "crashed")
    /\ UNCHANGED <<finish, app, repo>>
    /\ UNCHANGED migVars

\* get_current_track raises (a failed request) at line 260 or at line 265:
\* nothing in the worker catches it and the thread ends; an iteration that
\* ends this way is reported as "raised"
SamplerRaises ==
    /\ pc \in {"start", "loop"}
    /\ ~finish
    /\ pc' = "crashed"
    /\ tick' = (IF pc = "loop"
                THEN [NoTick EXCEPT !.branch = "raised",
                                    !.was_song = recorded_song,
                                    !.was_time = recorded_time]
                ELSE tick)
    /\ UNCHANGED <<finish, recorded_song, recorded_time, Genre, app, repo>>
    /\ UNCHANGED migVars

\* while not self.finish: the flag is read at the top of an iteration
LoopExit ==
    /\ pc = "loop"
    /\ finish
    /\ pc' = "done"
    /\ UNCHANGED <<finish, recorded_song, recorded_time, Genre, tick, app, repo>>
    /\ UNCHANGED migVars

\* the menu loop sets self.finish (Quit, KeyboardInterrupt)
SetFinish ==
    /\ app = "menu"
    /\ ~finish
    /\ finish' = TRUE
    /\ UNCHANGED <<pc, recorded_song, recorded_time, Genre, tick, app, repo>>
    /\ UNCHANGED migVars

\* the repository called directly; repo keeps the call, the table it found
\* and the exception it raised
NoRepoCall == [op |-> "none", name |-> "", id |-> 0, by |-> 0,
               error |-> "none", before |-> <<>>]

CreateGenre ==
    \E name \in GenreNames :
        /\ Genre' = create_new_genre(Genre, name).table
        /\ repo' = [op |-> "create", name |-> name, id |-> 0, by |-> 0,
                    error |-> create_new_genre(Genre, name).error,
                    before |-> Genre]
        /\ UNCHANGED <<pc, finish, recorded_song, recorded_time, tick, app>>
        /\ UNCHANGED migVars

IncrementGenre ==
    \E genre_id \in 1..(Len(Genre) + 1), increment_by \in 0..1 :
        /\ Fits(increment_genre_listen_time(Genre, genre_id, increment_by))
        /\ Genre' = increment_genre_listen_time(Genre, genre_id, increment_by)
        /\ repo' = [op |-> "increment", name |-> "", id |-> genre_id,
                    by |-> increment_by,
                    error |-> increment_error(Genre, genre_id),
                    before |-> Genre]
        /\ UNCHANGED <<pc, finish, recorded_song, recorded_time, tick, app>>
        /\ UNCHANGED migVars

\* ------------------------------------------------------------ Program.run
\* `with DatabaseManager() as db: db.migration_upgrade()`: __exit__ prints
\* the exception and returns True, so whatever the upgrade did or raised,
\* run goes on with the login at line 40
run_after_upgrade(result) == "auth"

\* lines 36-37
RunUpgrade ==
    /\ app = "boot"
    /\ \E out \in {migration_upgrade(upFiles, dbVersion, d) : d \in DmlPositions} :
        /\ dbVersion' = out.version
        /\ last' = Call("upgrade", 0, out)
        /\ prev' = Before(last)
        /\ app' = run_after_upgrade(out.result)
    /\ UNCHANGED <<upFiles, downFiles>>
    /\ UNCHANGED <<pc, finish, recorded_song, recorded_time, Genre, tick, repo>>

\* lines 40-45: refresh_tokens succeeds and the listening thread is
\* started, or it raises PermissionError, which is printed
RunLogin ==
    /\ app = "auth"
    /\ \E authenticated \in BOOLEAN :
        pc' = (IF authenticated THEN "start" ELSE pc)
    /\ app' = "menu"
    /\ UNCHANGED <<finish, recorded_song, recorded_time, Genre, tick, repo>>
    /\ UNCHANGED migVars

\* anonymous_prompt_menu, option 1: a successful authentication starts the
\* listening thread
MenuAuthenticate ==
    /\ app = "menu"
    /\ ~finish
    /\ pc = "off"
    /\ pc' = "start"
    /\ UNCHANGED <<finish, recorded_song, recorded_time, Genre, tick, app, repo>>
    /\ UNCHANGED migVars

MigrationIdle ==
    /\ dbVersion = 0
    /\ upFiles = <<>>
    /\ downFiles = {}
    /\ last = NoCall
    /\ prev = NoPrev

TrackIdle ==
    /\ pc = "off"
    /\ finish = FALSE
    /\ recorded_song = NoSong
    /\ recorded_time = NoTime
    /\ Genre = <<>>
    /\ tick = NoTick
    /\ app = "boot"
    /\ repo = NoRepoCall

\* --------------------------------------------------------- specifications
InitMigration ==
    /\ dbVersion = 0
    /\ upFiles \in Listings
    /\ downFiles \in SUBSET DownNums
    /\ last = NoCall
    /\ prev = NoPrev
    /\ TrackIdle

NextMigration ==
    \/ Upgrade
    \/ Rollback
    \/ AddUpFile
    \/ RemoveUpFile
    \/ AddDownFile
    \/ RemoveDownFile

SpecMigration == InitMigration /\ [][NextMigration]_vars

InitTracker ==
    /\ MigrationIdle
    /\ pc = "start"
    /\ finish = FALSE
    /\ recorded_song = NoSong
    /\ recorded_time = NoTime
    /\ Genre = <<>>
    /\ tick = NoTick
    /\ app = "menu"
    /\ repo = NoRepoCall

NextTracker ==
    \/ StartLoop
    \/ Tick
    \/ SamplerRaises
    \/ LoopExit
    \/ SetFinish
    \/ CreateGenre
    \/ IncrementGenre

SpecTracker == InitTracker /\ [][NextTracker]_vars

\* the program from its start: the store is new, the directory is any
InitRun ==
    /\ dbVersion = 0
    /\ upFiles \in Listings
    /\ downFiles = {}
    /\ last = NoCall
    /\ prev = NoPrev
    /\ TrackIdle

NextRun ==
    \/ RunUpgrade
    \/ RunLogin
    \/ MenuAuthenticate
    \/ SetFinish
    \/ StartLoop
    \/ Tick
    \/ SamplerRaises
    \/ LoopExit

SpecRun == InitRun /\ [][NextRun]_vars

\* ------------------------------------------------------------ properties
OneTo(n) == [i \in 1..n |-> i]
DownFrom(c, t) == [i \in 1..(c - t) |-> c + 1 - i]

Ticked == tick.branch \in {"same", "changed"}

\* C1: the seconds a tick credits to one genre stay below the poll interval
\* plus the request time measured in that tick
C1_CreditBelowWallClock ==
    Ticked => \A g \in GenreNames :
                  tick.credited[g] * 1000 < CheckInterval + tick.request_time

\* a tick of the same track whose positive delta passed the bound check
C1_Witness ==
    /\ tick.branch = "same"
    /\ tick.accepted
    /\ tick.delta > 0
    /\ tick.was_time # NoTime

\* C2: the listened time of an existing genre row never decreases, and the
\* row stays in the table
C2_ListenedMonotonic ==
    [][\A i \in 1..Len(Genre) :
          /\ i <= Len(Genre')
          /\ Genre'[i].name = Genre[i].name
          /\ Genre'[i].listened_time >= Genre[i].listened_time]_vars

\* a row was incremented and the worker has run an iteration
C2_Witness ==
    /\ Ticked
    /\ \E i \in 1..Len(Genre) : Genre[i].listened_time > 0

\* C3: same track, progress advanced by exactly the poll interval: every
\* genre of the track is credited the interval (1.5 s, to the second)
C3_CreditsInterval ==
    (/\ tick.branch = "same"
     /\ tick.was_time # NoTime
     /\ tick.was_time # 0
     /\ tick.sample.progress_ms = tick.was_time + CheckInterval)
    => \A g \in Range(TrackGenres(tick.sample.song_id)) : tick.credited[g] \in 1..2

\* C4: same track, progress jumped forward by ten poll intervals: the tick
\* credits nothing
C4_SeekCreditsNothing ==
    (/\ tick.branch = "same"
     /\ tick.was_time # NoTime
     /\ tick.sample.progress_ms = tick.was_time + 10 * CheckInterval)
    => \A g \in GenreNames : tick.credited[g] = 0

\* a tick of the same track that saw the jump
C4_Witness ==
    /\ tick.branch = "same"
    /\ tick.was_time # NoTime
    /\ tick.sample.progress_ms = tick.was_time + 10 * CheckInterval

\* C5: from version 0 with the scripts 1..N present, upgrade applies
\* 1, 2, ..., N in that order and stores version N
C5_UpgradeFromZero ==
    (/\ last.op = "upgrade"
     /\ last.pre = 0
     /\ Len(upFiles) >= 1
     /\ Range(upFiles) = 1..Len(upFiles))
    => /\ last.result = "ok"
       /\ last.applied = OneTo(Len(upFiles))
       /\ dbVersion = Len(upFiles)

\* C6: a second upgrade after a successful one, with the scripts 1..N
\* present and the store at N, runs no script and leaves the version at N
C6_UpgradeIdempotent ==
    (/\ last.op = "upgrade"
     /\ prev.op = "upgrade"
     /\ prev.result = "ok"
     /\ last.pre >= 1
     /\ Range(upFiles) = 1..last.pre)
    => /\ last.applied = <<>>
       /\ dbVersion = last.pre

\* a successful upgrade to N >= 1 followed by another upgrade
C6_Witness ==
    /\ last.op = "upgrade"
    /\ prev.op = "upgrade"
    /\ prev.result = "ok"
    /\ prev.pre = 0
    /\ last.pre >= 2
    /\ Range(upFiles) = 1..last.pre

\* C7: with the scripts 001 and 003 and no 002, upgrade fails with an error
\* naming 2 and the stored version is what it was before the call
C7_MissingSequence ==
    (/\ last.op = "upgrade"
     /\ Range(upFiles) = {1, 3})
    => /\ last.result = "IndexError"
       /\ last.errId = 2
       /\ dbVersion = last.pre

\* C8: rollback(t) from version c > t with the down scripts of every applied
\* version present (1..c, so t+1..c among them) applies c, c-1, ..., t+1
\* and stores version t
C8_RollbackToTarget ==
    (/\ last.op = "rollback"
     /\ last.target < last.pre
     /\ downFiles = 1..last.pre)
    => /\ last.result = "ok"
       /\ last.applied = DownFrom(last.pre, last.target)
       /\ dbVersion = last.target

\* C9: a rollback below the current version c followed by upgrade, with the
\* up scripts 1..c present, stores version c again
C9_RoundTrip ==
    (/\ last.op = "upgrade"
     /\ prev.op = "rollback"
     /\ prev.result = "ok"
     /\ Range(upFiles) = 1..prev.pre)
    => dbVersion = prev.pre

\* C10: rollback to the current or a later version is refused: no script
\* runs and the stored version is unchanged
C10_RollbackRefused ==
    (/\ last.op = "rollback"
     /\ last.target >= last.pre)
    => /\ last.result \in {"already", "future"}
       /\ last.applied = <<>>
       /\ dbVersion = last.pre

\* rollback to a later version with down scripts in the directory
C10_Witness ==
    /\ last.op = "rollback"
    /\ last.target > last.pre
    /\ last.pre >= 1
    /\ last.pre \in downFiles

\* C11: a rollback call ends at its target version, or it runs no script
\* and leaves the stored version as it was
C11_RollbackAllOrNothing ==
    last.op = "rollback"
    => \/ /\ last.result = "ok"
          /\ dbVersion = last.target
       \/ /\ last.applied = <<>>
          /\ dbVersion = last.pre

\* C12: after an upgrade that failed at startup the program goes no
\* further: no login, no menu, no listening worker
C12_FailedUpgradeIsFatal ==
    (last.op = "upgrade" /\ last.result = "IndexError")
    => /\ app \notin {"auth", "menu"}
       /\ pc = "off"

IncrementAmounts == 0..2

\* C13: two increments of an existing row add up: its listened time is the
\* original plus both amounts, and every other row is as it was
C13_IncrementsAddUp ==
    /\ \A id \in 1..Len(Genre), s1, s2 \in IncrementAmounts :
          LET twice == increment_genre_listen_time(
                           increment_genre_listen_time(Genre, id, s1), id, s2)
          IN  /\ Len(twice) = Len(Genre)
              /\ twice[id].listened_time = Genre[id].listened_time + s1 + s2
              /\ twice[id].name = Genre[id].name
              /\ \A j \in 1..Len(Genre) : j # id => twice[j] = Genre[j]
    /\ (repo.op = "increment" /\ repo.id \in 1..Len(repo.before))
       => /\ Len(Genre) = Len(repo.before)
          /\ Genre[repo.id].listened_time
                 = repo.before[repo.id].listened_time + repo.by
          /\ \A j \in 1..Len(Genre) : j # repo.id => Genre[j] = repo.before[j]

\* the second increment by 1 of a row, next to another row
C13_Witness ==
    /\ repo.op = "increment"
    /\ repo.by = 1
    /\ Len(repo.before) = 2
    /\ repo.id \in 1..2
    /\ repo.before[repo.id].listened_time = 1
    /\ Genre[repo.id].listened_time = 2

C15_DuplicateCreateRefused ==
    (repo.op = "create" /\ NameTaken(repo.before, repo.name))
    => /\ repo.error = "IntegrityError"
       /\ Genre = repo.before

\* a create of a name whose row has listened time
C15_Witness ==
    /\ repo.op = "create"
    /\ \E i \in 1..Len(repo.before) :
          /\ repo.before[i].name = repo.name
          /\ repo.before[i].listened_time > 0

\* C16: an iteration whose sampler call raised credits nothing and leaves
\* the worker in the loop (or stopped by the flag)
C16_SamplerFailureSurvived ==
    tick.branch = "raised"
    => /\ pc \in {"loop", "done"}
       /\ \A g \in GenreNames : tick.credited[g] = 0

C18_EndsOnlyOnFlag ==
    (pc = "done" \/ (pc = "crashed" /\ tick.branch = "raised")) => finish

\* C19: after an iteration that sampled a track, the recorded song and the
\* recorded time are those of the sample
C19_RebaselinedToSample ==
    Ticked => /\ recorded_song = tick.sample.song_id
              /\ recorded_time = tick.sample.progress_ms

\* C20: same track with a smaller progress than recorded: the iteration
\* credits nothing and creates no genre
C20_BackwardCreditsNothing ==
    (/\ tick.branch = "same"
     /\ tick.was_time # NoTime
     /\ tick.sample.progress_ms < tick.was_time)
    => /\ \A g \in GenreNames : tick.credited[g] = 0
       /\ tick.created = <<>>

\* an iteration of the same track that went backwards
C20_Witness ==
    /\ tick.branch = "same"
    /\ tick.was_time # NoTime
    /\ tick.sample.progress_ms < tick.was_time
    /\ tick.delta < 0

\* C21: an iteration that sampled another track than the recorded one
\* credits the elapsed time of the new track to each genre of the new track
\* when that time is below the poll interval plus the request time, and
\* credits nothing otherwise; a genre the new track does not have is never
\* credited
C21_ChangedTrackCredited ==
    tick.branch = "changed"
    => LET secs == TimedeltaSeconds(tick.sample.progress_ms)
           ok == tick.sample.progress_ms < CheckInterval + tick.request_time
           genres == Range(TrackGenres(tick.sample.song_id))
       IN  \A g \in GenreNames :
               IF ok /\ g \in genres
               THEN tick.credited[g] >= secs
               ELSE tick.credited[g] = 0

\* C22: an iteration that finds nothing playing leaves the recorded song,
\* the recorded time and every genre row as they were, and creates no row
C22_NothingPlayingNoChange ==
    [][(tick' # tick /\ tick'.branch = "nothing")
       => /\ recorded_song' = recorded_song
          /\ recorded_time' = recorded_time
          /\ Genre' = Genre
          /\ tick'.created = <<>>
          /\ \A g \in GenreNames : tick'.credited[g] = 0]_vars

\* nothing playing while a song and a time are recorded and the table has
\* a row
C22_Witness ==
    /\ tick.branch = "nothing"
    /\ tick.was_song # NoSong
    /\ tick.was_time > 0
    /\ recorded_song = tick.was_song
    /\ Len(Genre) >= 1

\* C23: with no song recorded, an iteration that samples a track takes the
\* sample as the baseline: the delta is 0, no genre is credited, and the
\* recorded song and time are those of the sample, whatever its progress
C23_FirstSampleIsBaseline ==
    (Ticked /\ tick.was_song = NoSong)
    => /\ tick.branch = "same"
       /\ tick.delta = 0
       /\ \A g \in GenreNames : tick.credited[g] = 0
       /\ recorded_song = tick.sample.song_id
       /\ recorded_time = tick.sample.progress_ms

\* the first sample of a track is far into the track
C23_Witness ==
    /\ Ticked
    /\ tick.was_song = NoSong
    /\ tick.was_time = NoTime
    /\ tick.sample.progress_ms = 16500

\* C24: after an iteration whose delta was accepted every genre of the
\* sampled track has exactly one row, and a row the iteration created is
\* reported as created once
C24_GenreRecordEnsured ==
    (Ticked /\ tick.accepted)
    => /\ \A g \in Range(TrackGenres(tick.sample.song_id)) :
              Cardinality({i \in 1..Len(Genre) : Genre[i].name = g}) = 1
       /\ NoDup(tick.created)

\* C25: the genres an accepted iteration loops over name each genre once,
\* and no genre is credited more than the delta of the iteration
C25_GenresFormSet ==
    (Ticked /\ tick.accepted)
    => /\ NoDup(TrackGenres(tick.sample.song_id))
       /\ \A g \in GenreNames :
              tick.credited[g] <= TimedeltaSeconds(tick.delta)

\* C26: every script an upgrade call executes has the sequence number that
\* follows the version at that moment: the k-th script executed by a call
\* that started at version v is script v + k
C26_ScriptAtItsVersion ==
    last.op = "upgrade"
    => \A k \in 1..Len(last.applied) : last.applied[k] = last.pre + k

\* C27: what an upgrade call has to do is decided by the scripts above the
\* stored version v, whatever is left of the scripts 1..v: when the listing
\* is in ascending order and the scripts above v are v+1..M, the call
\* executes v+1, ..., M in that order and stores M; and the call reports
\* nothing pending only when no script is above v
C27_PendingFromVersion ==
    (/\ last.op = "upgrade"
     /\ Ascending(upFiles)
     /\ Range(upFiles) \subseteq 1..MaxSeq)
    => LET above == {n \in Range(upFiles) : n > last.pre}
           M == last.pre + Cardinality(above)
       IN  /\ (above # {} /\ above = (last.pre + 1)..M)
              => /\ last.result = "ok"
                 /\ last.applied = [k \in 1..Cardinality(above) |-> last.pre + k]
                 /\ dbVersion = M
           /\ last.result = "noop" => above = {}

====
